---- MODULE Spec2Model ----
(***************************************************************************)
(* A model of the fractured-json-rs layout engine: the metrics pass        *)
(* (src/computed.rs) and the layout selector and renderers                 *)
(* (src/formatter.rs), applied to bounded JsonItem trees and option        *)
(* records.  Text is a sequence of one-character strings, Option<String>   *)
(* is a sequence of length 0 (None) or 1 (Some).                           *)
(***************************************************************************)
EXTENDS Integers, Sequences, FiniteSets, TLC

\* item, options: the arguments of format.  computed: the ItemRef tree built
\* by the metrics pass.  buffer: the returned text.  calls: the renderers
\* entered.  pc: the position in format ("panicked": the call unwound).
VARIABLES item, options, computed, buffer, calls, pc

vars == <<item, options, computed, buffer, calls, pc>>

(***************************************************************************)
(* Bounds of the model.                                                    *)
(***************************************************************************)
\* Longest child list of a flat container (a row).
MaxChildren == 3
\* Longest child list of a container of rows.
MaxRows == 2
\* Stand-in for 2^64, the modulus of usize arithmetic in a build without
\* overflow checks (TLC integers are 32 bits wide).
UsizeModulus == 1073741824
\* The longest string value of the escaping inputs.
MaxStrLen == 2

(***************************************************************************)
(* Small helpers.                                                          *)
(***************************************************************************)
Max(a, b) == IF a >= b THEN a ELSE b

Min(a, b) == IF a <= b THEN a ELSE b

Spaces(n) == [i \in 1..n |-> " "]

Tabs(n) == [i \in 1..n |-> "\t"]

RECURSIVE SumSeq(_)
SumSeq(s) == IF s = <<>> THEN 0 ELSE Head(s) + SumSeq(Tail(s))

RECURSIVE MaxSeq(_)
MaxSeq(s) == IF s = <<>> THEN 0 ELSE Max(Head(s), MaxSeq(Tail(s)))

RECURSIVE Flatten(_)
Flatten(ss) == IF ss = <<>> THEN <<>> ELSE Head(ss) \o Flatten(Tail(ss))

\* All sequences over S of length 0..n.
SeqsUpTo(S, n) == UNION {[1..k -> S] : k \in 0..n}

\* t occurs in s as a contiguous run.
Contains(s, t) ==
    \E i \in 0..(Len(s) - Len(t)) : \A j \in 1..Len(t) : s[i + j] = t[j]

None == <<>>

Some(x) == <<x>>

is_some(o) == Len(o) > 0

(***************************************************************************)
(* types.rs                                                                *)
(***************************************************************************)
JsonItemType ==
    {"Null", "False", "True", "String", "Number", "Object", "Array",
     "BlankLine", "LineComment", "BlockComment"}

is_comment(t) == t \in {"LineComment", "BlockComment"}

is_comment_or_blank(t) == t \in {"LineComment", "BlockComment", "BlankLine"}

is_structural(t) == t \in {"Object", "Array"}

is_value(t) == t \in {"String", "Number", "True", "False", "Null"}

\* JsonItem::new followed by with_value / with_name.
JsonItem(t, name, value, kids) ==
    [item_type |-> t, name |-> name, value |-> value,
     prefix_comment |-> None, middle_comment |-> None, postfix_comment |-> None,
     children |-> kids]

has_comments(it) ==
    is_some(it.prefix_comment) \/ is_some(it.middle_comment)
        \/ is_some(it.postfix_comment)

is_empty(it) ==
    IF it.item_type \in {"Object", "Array"} THEN Len(it.children) = 0 ELSE FALSE

(***************************************************************************)
(* options.rs                                                              *)
(***************************************************************************)
DefaultOptions ==
    [json_eol_style |-> "Default",
     max_total_line_length |-> 120,
     max_inline_complexity |-> 1,
     max_compact_array_complexity |-> 2,
     max_table_row_complexity |-> 1,
     max_prop_name_padding |-> 40,
     colon_before_prop_name_padding |-> FALSE,
     table_comma_placement |-> "EndOfLine",
     min_compact_array_row_items |-> 4,
     nested_bracket_padding |-> TRUE,
     simple_bracket_padding |-> TRUE,
     colon_padding |-> TRUE,
     comma_padding |-> TRUE,
     comment_padding |-> TRUE,
     number_list_alignment |-> "None",
     indent_spaces |-> 4,
     use_tab_to_indent |-> FALSE,
     comment_policy |-> "Preserve",
     allow_trailing_commas |-> FALSE]

eol_string(opts) ==
    CASE opts.json_eol_style = "Lf" -> <<"\n">>
      [] opts.json_eol_style = "Crlf" -> <<"\r", "\n">>
      [] opts.json_eol_style = "Default" -> <<"\n">>

(***************************************************************************)
(* computed.rs: the metrics pass.                                          *)
(***************************************************************************)
QUOTES_SIZE == 2

BRACKETS_SIZE == 2

COLON_SIZE == 1

\* compute_complexity_impl with an empty container counted as a leaf.
compute_complexity_impl_EmptyIsLeaf(it, children) ==
    IF it.item_type \in {"Array", "Object"} /\ Len(children) > 0
    THEN MaxSeq([i \in 1..Len(children) |-> children[i].complexity]) + 1
    ELSE 0

compute_complexity_impl(it, children) ==
    IF it.item_type \in {"Array", "Object"}
    THEN MaxSeq([i \in 1..Len(children) |-> children[i].complexity]) + 1
    ELSE 0

compute_lengths_impl(it, children, opts) ==
    LET separators ==
            IF Len(children) # 0
            THEN (Len(children) - 1) * (IF opts.comma_padding THEN 2 ELSE 1)
            ELSE 0
        brackets == IF opts.simple_bracket_padding THEN 2 ELSE 0
    IN  CASE it.item_type = "Array" ->
                SumSeq([i \in 1..Len(children) |->
                            children[i].minimum_total_length])
                    + separators + brackets + BRACKETS_SIZE
          [] it.item_type = "Object" ->
                SumSeq([i \in 1..Len(children) |->
                            children[i].name_length + COLON_SIZE + QUOTES_SIZE
                                + children[i].minimum_total_length])
                    + separators + brackets + BRACKETS_SIZE
          [] it.item_type = "BlankLine" -> 0
          [] OTHER -> Len(it.value)

\* compute_requires_multiple_lines_impl looking at the children's own
\* comments only.
compute_requires_multiple_lines_impl_ChildrenOnly(it, children) ==
    IF it.item_type \in {"Array", "Object"}
    THEN \E i \in 1..Len(children) : has_comments(children[i])
    ELSE FALSE

compute_requires_multiple_lines_impl(it, children) ==
    IF it.item_type \in {"Array", "Object"}
    THEN \/ \E i \in 1..Len(children) : has_comments(children[i])
         \/ \E i \in 1..Len(children) : children[i].requires_multiple_lines
    ELSE FALSE

\* ItemRef: the item's own fields, its ComputedItem and its computed children.
RECURSIVE compute_recursive(_, _)
compute_recursive(it, opts) ==
    LET children == [i \in 1..Len(it.children) |->
                        compute_recursive(it.children[i], opts)]
    IN  [item_type |-> it.item_type, name |-> it.name, value |-> it.value,
         prefix_comment |-> it.prefix_comment,
         middle_comment |-> it.middle_comment,
         postfix_comment |-> it.postfix_comment,
         children |-> children,
         complexity |-> compute_complexity_impl(it, children),
         minimum_total_length |-> compute_lengths_impl(it, children, opts),
         requires_multiple_lines |->
             compute_requires_multiple_lines_impl(it, children),
         name_length |-> Len(it.name),
         value_length |-> Len(it.value)]

from_root(root, opts) == compute_recursive(root, opts)

(***************************************************************************)
(* formatter.rs: the output buffer.  A panic unwinds the call, so once    *)
(* the run has panicked nothing more is written.  calls is the record of   *)
(* the renderers entered (which container, at which indent argument).      *)
(***************************************************************************)
NewBuffer(checks) ==
    [text |-> <<>>, panicked |-> FALSE, calls |-> {}, overflow_checks |-> checks]

push_str(b, s) == IF b.panicked THEN b ELSE [b EXCEPT !.text = @ \o s]

panic(b) == [b EXCEPT !.panicked = TRUE]

enter(b, it, indent, renderer) ==
    IF b.panicked THEN b
    ELSE [b EXCEPT !.calls =
              @ \cup {[item |-> it, indent |-> indent, renderer |-> renderer]}]

(***************************************************************************)
(* formatter.rs: the layout selector's predicates.                         *)
(***************************************************************************)
\* should_inline with the indentation left out of the length test.
should_inline_IgnoringIndent(it, opts, indent) ==
    IF it.requires_multiple_lines THEN FALSE
    ELSE IF has_comments(it) THEN FALSE
    ELSE IF it.complexity > opts.max_inline_complexity THEN FALSE
    ELSE IF it.minimum_total_length > opts.max_total_line_length THEN FALSE
    ELSE TRUE

should_inline(it, opts, indent) ==
    IF it.requires_multiple_lines THEN FALSE
    ELSE IF has_comments(it) THEN FALSE
    ELSE IF it.complexity > opts.max_inline_complexity THEN FALSE
    ELSE IF it.minimum_total_length + indent * opts.indent_spaces
                > opts.max_total_line_length THEN FALSE
    ELSE TRUE

should_format_as_compact_array(it, opts, indent) ==
    IF it.item_type # "Array" THEN FALSE
    ELSE IF is_empty(it) THEN FALSE
    ELSE IF it.complexity > opts.max_compact_array_complexity THEN FALSE
    ELSE IF has_comments(it) THEN FALSE
    ELSE IF Len(it.children) < opts.min_compact_array_row_items THEN FALSE
    ELSE TRUE

\* get_item_type_for_table taking an empty container for a row like any other.
get_item_type_for_table_EmptyContainersEligible(it) ==
    CASE it.item_type \in {"Object", "Array", "String", "Number", "True",
                            "False", "Null"} -> Some(it.item_type)
      [] OTHER -> None

\* Option<JsonItemType>: None or Some(type).
get_item_type_for_table(it) ==
    CASE it.item_type = "Object" ->
            IF is_empty(it) THEN None ELSE Some("Object")
      [] it.item_type = "Array" ->
            IF is_empty(it) THEN None ELSE Some("Array")
      [] it.item_type \in {"String", "Number", "True", "False", "Null"} ->
            Some(it.item_type)
      [] OTHER -> None

get_property_names(it) ==
    IF it.item_type # "Object" THEN <<>>
    ELSE [i \in 1..Len(it.children) |-> it.children[i].name]

\* can_format_as_table_array accepting container rows only.
can_format_as_table_array_ContainerRowsOnly(it, opts) ==
    IF is_empty(it) THEN FALSE
    ELSE LET first_type == get_item_type_for_table(it.children[1])
         IN  IF first_type \notin {Some("Object"), Some("Array")} THEN FALSE
             ELSE \A i \in 1..Len(it.children) :
                      get_item_type_for_table(it.children[i]) = first_type

can_format_as_table_array(it, opts) ==
    IF is_empty(it) THEN FALSE
    ELSE LET first_type == get_item_type_for_table(it.children[1])
         IN  IF first_type = None THEN FALSE
             ELSE \A i \in 1..Len(it.children) :
                      get_item_type_for_table(it.children[i]) = first_type

can_format_as_table_object(it, opts) ==
    IF is_empty(it) THEN FALSE
    ELSE LET first_props == get_property_names(it.children[1])
         IN  IF Len(first_props) = 0 THEN FALSE
             ELSE \A i \in 1..Len(it.children) :
                      get_property_names(it.children[i]) = first_props

\* should_format_as_table with the forced-multiline test applied to Objects
\* as it is to Arrays.
should_format_as_table_ForcedObjectsExcluded(it, opts, indent) ==
    IF it.item_type \notin {"Array", "Object"} THEN FALSE
    ELSE IF it.requires_multiple_lines THEN FALSE
    ELSE IF is_empty(it) THEN FALSE
    ELSE IF it.complexity > opts.max_table_row_complexity THEN FALSE
    ELSE IF it.item_type = "Array" THEN can_format_as_table_array(it, opts)
    ELSE can_format_as_table_object(it, opts)

\* should_format_as_table with the forced-multiline test applied to neither
\* Arrays nor Objects.
should_format_as_table_ForcedArraysAllowed(it, opts, indent) ==
    IF it.item_type \notin {"Array", "Object"} THEN FALSE
    ELSE IF is_empty(it) THEN FALSE
    ELSE IF it.complexity > opts.max_table_row_complexity THEN FALSE
    ELSE IF it.item_type = "Array" THEN can_format_as_table_array(it, opts)
    ELSE can_format_as_table_object(it, opts)

should_format_as_table(it, opts, indent) ==
    IF it.item_type = "Array"
    THEN IF it.requires_multiple_lines THEN FALSE
         ELSE IF is_empty(it) THEN FALSE
         ELSE IF it.complexity > opts.max_table_row_complexity THEN FALSE
         ELSE IF ~can_format_as_table_array(it, opts) THEN FALSE
         ELSE TRUE
    ELSE IF it.item_type = "Object"
    THEN IF is_empty(it) THEN FALSE
         ELSE IF it.complexity > opts.max_table_row_complexity THEN FALSE
         ELSE IF ~can_format_as_table_object(it, opts) THEN FALSE
         ELSE TRUE
    ELSE FALSE

(***************************************************************************)
(* formatter.rs: text and number utilities.                                *)
(***************************************************************************)
\* Rust's {:<width$}: pad on the right, never truncate.
PadRight(s, width) == s \o Spaces(Max(width - Len(s), 0))

\* Rust's {: >width$}: pad on the left, never truncate.
PadLeft(s, width) == Spaces(Max(width - Len(s), 0)) \o s

\* str::split('.'): the pieces between the dots.
RECURSIVE SplitDot(_, _)
SplitDot(s, cur) ==
    IF s = <<>> THEN <<cur>>
    ELSE IF Head(s) = "." THEN <<cur>> \o SplitDot(Tail(s), <<>>)
    ELSE SplitDot(Tail(s), Append(cur, Head(s)))

format_number_aligned(value, opts, other_values) ==
    CASE opts.number_list_alignment = "None" -> value
      [] opts.number_list_alignment = "Left" ->
            IF Len(other_values) > 0
            THEN PadRight(value,
                     MaxSeq([i \in 1..Len(other_values) |-> Len(other_values[i])]))
            ELSE value
      [] opts.number_list_alignment = "Decimal" ->
            LET max_integer_part ==
                    IF Len(other_values) > 0
                    THEN MaxSeq([i \in 1..Len(other_values) |->
                                    Len(SplitDot(other_values[i], <<>>)[1])])
                    ELSE Len(value)
                parts == SplitDot(value, <<>>)
            IN  IF \E i \in 1..Len(value) : value[i] = "."
                THEN IF Len(parts) = 2
                     THEN PadLeft(parts[1], max_integer_part) \o <<".">> \o parts[2]
                     ELSE value
                ELSE PadLeft(value, max_integer_part)

write_spaces(b, count) == push_str(b, Spaces(count))

write_indent(opts, indent, b) ==
    IF opts.use_tab_to_indent
    THEN push_str(b, Tabs(indent))
    ELSE write_spaces(b, indent * opts.indent_spaces)

\* Code points of the control characters of the model's alphabet; the ones
\* TLA+ has no escape for are written U+00XX.
ControlCode ==
    ("\n" :> 10) @@ ("\t" :> 9) @@ ("\r" :> 13) @@ ("U+0008" :> 8)
        @@ ("\f" :> 12) @@ ("U+0001" :> 1) @@ ("U+001F" :> 31)

HEX == <<"0", "1", "2", "3", "4", "5", "6", "7", "8", "9",
         "a", "b", "c", "d", "e", "f">>

needs_escape_char(c) == c \in {"\\", "\""} \/ c \in DOMAIN ControlCode

\* escape_char without the short escapes of backspace and form feed.
escape_char_NoShortBackspaceFormFeed(c) ==
    CASE c = "\\" -> <<"\\", "\\">>
      [] c = "\"" -> <<"\\", "\"">>
      [] c = "\n" -> <<"\\", "n">>
      [] c = "\t" -> <<"\\", "t">>
      [] c = "\r" -> <<"\\", "r">>
      [] OTHER ->
            IF c \in DOMAIN ControlCode
            THEN <<"\\", "u", "0", "0",
                   HEX[((ControlCode[c] \div 16) % 16) + 1],
                   HEX[(ControlCode[c] % 16) + 1]>>
            ELSE <<c>>

escape_char(c) ==
    CASE c = "\\" -> <<"\\", "\\">>
      [] c = "\"" -> <<"\\", "\"">>
      [] c = "\n" -> <<"\\", "n">>
      [] c = "\t" -> <<"\\", "t">>
      [] c = "\r" -> <<"\\", "r">>
      [] c = "U+0008" -> <<"\\", "b">>
      [] c = "\f" -> <<"\\", "f">>
      [] OTHER ->
            IF c \in DOMAIN ControlCode
            THEN <<"\\", "u", "0", "0",
                   HEX[((ControlCode[c] \div 16) % 16) + 1],
                   HEX[(ControlCode[c] % 16) + 1]>>
            ELSE <<c>>

escape_string(s) ==
    IF ~(\E i \in 1..Len(s) : needs_escape_char(s[i])) THEN s
    ELSE Flatten([i \in 1..Len(s) |-> escape_char(s[i])])

write_quotes(s, b) == push_str(b, <<"\"">> \o escape_string(s) \o <<"\"">>)

write_quoted_property_name(s, b) == push_str(b, <<"\"">> \o s \o <<"\"">>)

\* write_prefix_comment without the test of the comment policy.
write_prefix_comment_AnyPolicy(it, opts, b) ==
    IF is_some(it.prefix_comment)
    THEN LET pad == IF opts.comment_padding THEN <<" ">> ELSE <<>>
         IN  push_str(b, pad \o it.prefix_comment[1] \o pad)
    ELSE b

write_prefix_comment(it, opts, b) ==
    IF opts.comment_policy # "Preserve" THEN b
    ELSE IF is_some(it.prefix_comment)
    THEN LET pad == IF opts.comment_padding THEN <<" ">> ELSE <<>>
         IN  push_str(b, pad \o it.prefix_comment[1] \o pad)
    ELSE b

\* write_middle_comment breaking the line with a bare line feed.
write_middle_comment_BareLineFeed(it, opts, indent, b) ==
    IF opts.comment_policy # "Preserve" THEN b
    ELSE IF is_some(it.middle_comment)
    THEN LET b1 == write_indent(opts, indent, push_str(b, <<"\n">>))
             b2 == push_str(b1, it.middle_comment[1] \o <<"\n">>)
         IN  write_indent(opts, indent, b2)
    ELSE b

write_middle_comment(it, opts, indent, b) ==
    IF opts.comment_policy # "Preserve" THEN b
    ELSE IF is_some(it.middle_comment)
    THEN LET b1 == write_indent(opts, indent, push_str(b, eol_string(opts)))
             b2 == push_str(b1, it.middle_comment[1] \o eol_string(opts))
         IN  write_indent(opts, indent, b2)
    ELSE b

write_postfix_comment(it, opts, b) ==
    IF opts.comment_policy # "Preserve" THEN b
    ELSE IF is_some(it.postfix_comment)
    THEN LET pad == IF opts.comment_padding THEN <<" ">> ELSE <<>>
         IN  push_str(b, pad \o it.postfix_comment[1])
    ELSE b

\* The subtraction is unsigned: with overflow checks (a debug build) it
\* panics when the indentation exceeds the budget, without them it wraps.
calculate_items_per_row(it, opts, indent, checks) ==
    IF is_empty(it) THEN [panic |-> FALSE, value |-> 1]
    ELSE LET diff == opts.max_total_line_length
                         - (indent + 1) * opts.indent_spaces
             max_width == IF diff < 0 THEN diff + UsizeModulus ELSE diff
             avg_item_width ==
                 SumSeq([i \in 1..Len(it.children) |->
                            it.children[i].minimum_total_length])
                     \div Len(it.children)
         IN  IF diff < 0 /\ checks THEN [panic |-> TRUE, value |-> 0]
             ELSE IF avg_item_width = 0 THEN [panic |-> FALSE, value |-> 1]
             ELSE [panic |-> FALSE,
                   value |-> Max(max_width \div Max(avg_item_width, 1), 1)]

calculate_value_display_length(it) ==
    CASE it.item_type = "String" ->
            LET base_len == Len(it.value)
            IN  Min(base_len * 2, base_len + (base_len \div 5) + 10)
      [] it.item_type \in {"Number", "True", "False", "Null"} -> Len(it.value)
      [] it.item_type = "Object" -> 2
      [] it.item_type = "Array" -> 2
      [] OTHER -> 0

get_column_count(it) ==
    IF it.item_type \in {"Object", "Array"} THEN Len(it.children) ELSE 1

\* One row's contribution to the column widths.
table_row_widths(widths, row, indent, opts) ==
    CASE row.item_type = "Object" ->
            [c \in 1..Len(widths) |->
                IF c <= Len(row.children)
                THEN Max(widths[c],
                         row.children[c].name_length
                             + (calculate_value_display_length(row.children[c]) + 2)
                             + 4 + indent * opts.indent_spaces)
                ELSE widths[c]]
      [] row.item_type = "Array" ->
            [c \in 1..Len(widths) |->
                IF c <= Len(row.children)
                THEN Max(widths[c],
                         (calculate_value_display_length(row.children[c]) + 2)
                             + indent * opts.indent_spaces)
                ELSE widths[c]]
      [] OTHER ->
            [c \in 1..Len(widths) |->
                IF c = 1
                THEN Max(widths[c],
                         (calculate_value_display_length(row) + 2)
                             + indent * opts.indent_spaces)
                ELSE widths[c]]

RECURSIVE table_widths_loop(_, _, _, _, _)
table_widths_loop(items, indent, opts, widths, i) ==
    IF i > Len(items) THEN widths
    ELSE table_widths_loop(items, indent, opts,
             table_row_widths(widths, items[i], indent, opts), i + 1)

calculate_table_column_widths(items, indent, opts) ==
    IF Len(items) = 0 THEN <<>>
    ELSE table_widths_loop(items, indent, opts,
             [c \in 1..get_column_count(items[1]) |-> 0], 1)

format_value_simple(it) ==
    CASE it.item_type = "String" -> <<"\"">> \o escape_string(it.value) \o <<"\"">>
      [] it.item_type = "Number" -> it.value
      [] it.item_type = "True" -> <<"t", "r", "u", "e">>
      [] it.item_type = "False" -> <<"f", "a", "l", "s", "e">>
      [] it.item_type = "Null" -> <<"n", "u", "l", "l">>
      [] it.item_type = "Object" -> <<"{", "}">>
      [] it.item_type = "Array" -> <<"[", "]">>
      [] OTHER -> <<>>

get_column_values(it) ==
    IF it.item_type \in {"Object", "Array"}
    THEN [i \in 1..Len(it.children) |-> format_value_simple(it.children[i])]
    ELSE <<format_value_simple(it)>>

(***************************************************************************)
(* formatter.rs: the dispatcher and the renderers.  Each takes the buffer  *)
(* and returns the buffer after its writes; a for loop over the children   *)
(* is a recursion on the (1-based) child index, which a panic leaves.      *)
(***************************************************************************)
RECURSIVE format_item(_, _, _, _)
RECURSIVE format_inline_value(_, _, _, _)
RECURSIVE format_inline_array(_, _, _, _)
RECURSIVE format_inline_array_loop(_, _, _, _)
RECURSIVE format_inline_object(_, _, _, _)
RECURSIVE format_inline_object_loop(_, _, _, _, _)
RECURSIVE format_compact_array(_, _, _, _)
RECURSIVE format_compact_array_loop(_, _, _, _, _, _, _)
RECURSIVE format_table_object(_, _, _, _)
RECURSIVE format_table_object_loop(_, _, _, _, _)
RECURSIVE format_expanded_array(_, _, _, _)
RECURSIVE format_expanded_array_loop(_, _, _, _, _)
RECURSIVE format_expanded_object(_, _, _, _)
RECURSIVE format_expanded_object_loop(_, _, _, _, _)

\* The separator written after a child: a comma and its padding.
comma(opts) == IF opts.comma_padding THEN <<",", " ">> ELSE <<",">>

has_properties(it) ==
    \E i \in 1..Len(it.children) : ~is_comment_or_blank(it.children[i].item_type)

\* The cells of one table row: text, padding to the column width, comma.
RECURSIVE format_table_cells(_, _, _, _, _)
format_table_cells(values, column_widths, opts, col, b) ==
    IF b.panicked \/ col > Len(values) THEN b
    ELSE LET b1 == push_str(b, values[col])
             b2 == IF col < Len(values)
                   THEN IF col > Len(column_widths)
                        THEN panic(b1)
                        ELSE push_str(
                                 write_spaces(b1,
                                     Max(column_widths[col] - Len(values[col]), 0)),
                                 comma(opts))
                   ELSE b1
         IN  format_table_cells(values, column_widths, opts, col + 1, b2)

\* format_table_array's loop ending the last row like the others.
RECURSIVE format_table_array_loop_LastRowToo(_, _, _, _, _, _)
format_table_array_loop_LastRowToo(it, opts, indent, column_widths, i, b) ==
    IF b.panicked \/ i > Len(it.children) THEN b
    ELSE LET child == it.children[i]
             b1 == write_indent(opts, indent + 1, b)
             b2 == format_table_cells(get_column_values(child), column_widths,
                                      opts, 1, b1)
             b3 == IF opts.table_comma_placement = "EndOfLine"
                   THEN push_str(b2, <<",">>)
                   ELSE b2
         IN  format_table_array_loop_LastRowToo(it, opts, indent, column_widths,
                 i + 1, push_str(b3, eol_string(opts)))

RECURSIVE format_table_array_loop(_, _, _, _, _, _)
format_table_array_loop(it, opts, indent, column_widths, i, b) ==
    IF b.panicked \/ i > Len(it.children) THEN b
    ELSE LET child == it.children[i]
             b1 == write_indent(opts, indent + 1, b)
             b2 == format_table_cells(get_column_values(child), column_widths,
                                      opts, 1, b1)
             is_last == i = Len(it.children)
             b3 == IF ~is_last /\ opts.table_comma_placement = "EndOfLine"
                   THEN push_str(b2, <<",">>)
                   ELSE b2
         IN  format_table_array_loop(it, opts, indent, column_widths, i + 1,
                                     push_str(b3, eol_string(opts)))

format_table_array(it, opts, indent, b) ==
    LET b0 == enter(b, it, indent, "Table")
        b1 == push_str(write_indent(opts, indent, b0), <<"[">> \o eol_string(opts))
        column_widths == calculate_table_column_widths(it.children, indent + 1, opts)
        b2 == format_table_array_loop(it, opts, indent, column_widths, 1, b1)
    IN  push_str(write_indent(opts, indent, b2), <<"]">>)

\* format_item with Table tested before CompactArray.
format_item_TableBeforeCompact(it, opts, indent, b) ==
    CASE it.item_type = "Array" ->
            IF should_inline(it, opts, indent)
            THEN format_inline_array(it, opts, indent, b)
            ELSE IF should_format_as_table(it, opts, indent)
            THEN format_table_array(it, opts, indent, b)
            ELSE IF should_format_as_compact_array(it, opts, indent)
            THEN format_compact_array(it, opts, indent, b)
            ELSE format_expanded_array(it, opts, indent, b)
      [] it.item_type = "Object" ->
            IF should_inline(it, opts, indent)
            THEN format_inline_object(it, opts, indent, b)
            ELSE IF should_format_as_table(it, opts, indent)
            THEN format_table_object(it, opts, indent, b)
            ELSE format_expanded_object(it, opts, indent, b)
      [] it.item_type = "String" ->
            write_quotes(it.value, write_indent(opts, indent, b))
      [] it.item_type \in {"Number", "True", "False", "Null"} ->
            push_str(write_indent(opts, indent, b),
                     IF it.item_type = "Number" THEN it.value
                     ELSE IF it.item_type = "True" THEN <<"t", "r", "u", "e">>
                     ELSE IF it.item_type = "False" THEN <<"f", "a", "l", "s", "e">>
                     ELSE <<"n", "u", "l", "l">>)
      [] it.item_type \in {"LineComment", "BlockComment"} ->
            IF opts.comment_policy = "Preserve"
            THEN push_str(write_indent(opts, indent, b), it.value)
            ELSE b
      [] it.item_type = "BlankLine" -> push_str(b, eol_string(opts))

format_item(it, opts, indent, b) ==
    CASE it.item_type = "Array" ->
            IF should_inline(it, opts, indent)
            THEN format_inline_array(it, opts, indent, b)
            ELSE IF should_format_as_compact_array(it, opts, indent)
            THEN format_compact_array(it, opts, indent, b)
            ELSE IF should_format_as_table(it, opts, indent)
            THEN format_table_array(it, opts, indent, b)
            ELSE format_expanded_array(it, opts, indent, b)
      [] it.item_type = "Object" ->
            IF should_inline(it, opts, indent)
            THEN format_inline_object(it, opts, indent, b)
            ELSE IF should_format_as_table(it, opts, indent)
            THEN format_table_object(it, opts, indent, b)
            ELSE format_expanded_object(it, opts, indent, b)
      [] it.item_type = "String" ->
            write_quotes(it.value, write_indent(opts, indent, b))
      [] it.item_type = "Number" ->
            push_str(write_indent(opts, indent, b), it.value)
      [] it.item_type = "True" ->
            push_str(write_indent(opts, indent, b), <<"t", "r", "u", "e">>)
      [] it.item_type = "False" ->
            push_str(write_indent(opts, indent, b), <<"f", "a", "l", "s", "e">>)
      [] it.item_type = "Null" ->
            push_str(write_indent(opts, indent, b), <<"n", "u", "l", "l">>)
      [] it.item_type \in {"LineComment", "BlockComment"} ->
            IF opts.comment_policy = "Preserve"
            THEN push_str(write_indent(opts, indent, b), it.value)
            ELSE b
      [] it.item_type = "BlankLine" -> push_str(b, eol_string(opts))

\* format_inline_value dispatching a nested container one level deeper, as
\* the expanded renderers do.
format_inline_value_NestedIndent(it, opts, indent, b) ==
    CASE it.item_type \in {"Array", "Object"} -> format_item(it, opts, indent + 1, b)
      [] it.item_type = "String" -> write_quotes(it.value, b)
      [] it.item_type = "Number" -> push_str(b, it.value)
      [] it.item_type = "True" -> push_str(b, <<"t", "r", "u", "e">>)
      [] it.item_type = "False" -> push_str(b, <<"f", "a", "l", "s", "e">>)
      [] it.item_type = "Null" -> push_str(b, <<"n", "u", "l", "l">>)
      [] it.item_type \in {"LineComment", "BlockComment"} ->
            IF opts.comment_policy = "Preserve" THEN push_str(b, it.value) ELSE b
      [] it.item_type = "BlankLine" -> b

format_inline_value(it, opts, indent, b) ==
    CASE it.item_type \in {"Array", "Object"} -> format_item(it, opts, indent, b)
      [] it.item_type = "String" -> write_quotes(it.value, b)
      [] it.item_type = "Number" -> push_str(b, it.value)
      [] it.item_type = "True" -> push_str(b, <<"t", "r", "u", "e">>)
      [] it.item_type = "False" -> push_str(b, <<"f", "a", "l", "s", "e">>)
      [] it.item_type = "Null" -> push_str(b, <<"n", "u", "l", "l">>)
      [] it.item_type \in {"LineComment", "BlockComment"} ->
            IF opts.comment_policy = "Preserve" THEN push_str(b, it.value) ELSE b
      [] it.item_type = "BlankLine" -> b

format_inline_array_loop(it, opts, i, b) ==
    IF b.panicked \/ i > Len(it.children) THEN b
    ELSE LET child == it.children[i]
             b1 == IF i > 1 THEN push_str(b, comma(opts)) ELSE b
             b2 == write_prefix_comment(child, opts, b1)
             b3 == format_inline_value(child, opts, 0, b2)
             b4 == write_postfix_comment(child, opts, b3)
         IN  format_inline_array_loop(it, opts, i + 1, b4)

format_inline_array(it, opts, indent, b) ==
    LET b0 == enter(b, it, indent, "Inline")
        b1 == push_str(write_indent(opts, indent, b0), <<"[">>)
        pad == IF opts.nested_bracket_padding THEN <<" ">> ELSE <<>>
        b2 == IF ~is_empty(it)
              THEN push_str(
                       format_inline_array_loop(it, opts, 1, push_str(b1, pad)),
                       pad)
              ELSE IF opts.simple_bracket_padding THEN push_str(b1, <<" ">>)
              ELSE b1
    IN  push_str(b2, <<"]">>)

format_compact_array_loop(it, opts, indent, items_per_row, current_row, i, b) ==
    IF b.panicked \/ i > Len(it.children) THEN b
    ELSE LET child == it.children[i]
             row_idx == (i - 1) \div items_per_row
             b1 == IF row_idx > current_row
                   THEN push_str(b, <<",">> \o eol_string(opts))
                   ELSE b
             b2 == write_indent(opts, indent + 1, b1)
             b3 == write_prefix_comment(child, opts, b2)
             b4 == format_inline_value(child, opts, 0, b3)
             b5 == write_postfix_comment(child, opts, b4)
             b6 == IF i < Len(it.children) THEN push_str(b5, comma(opts)) ELSE b5
             b7 == push_str(b6, eol_string(opts))
         IN  format_compact_array_loop(it, opts, indent, items_per_row,
                 Max(row_idx, current_row), i + 1, b7)

format_compact_array(it, opts, indent, b) ==
    LET b0 == enter(b, it, indent, "CompactArray")
        b1 == push_str(write_indent(opts, indent, b0), <<"[">> \o eol_string(opts))
        items_per_row == calculate_items_per_row(it, opts, indent, b.overflow_checks)
    IN  IF items_per_row.panic THEN panic(b1)
        ELSE push_str(
                 write_indent(opts, indent,
                     format_compact_array_loop(it, opts, indent,
                         items_per_row.value, 0, 1, b1)),
                 <<"]">>)

\* "name" and the colon, the name padded to `padding` when the colon comes
\* after the padding.
write_padded_name(child, opts, padding, b) ==
    IF opts.colon_before_prop_name_padding
    THEN push_str(write_quoted_property_name(child.name, b), <<":">>)
    ELSE push_str(
             write_spaces(write_quoted_property_name(child.name, b),
                 Max(padding - child.name_length, 0)),
             <<":">>)

format_table_object_loop(it, opts, indent, i, b) ==
    IF b.panicked \/ i > Len(it.children) THEN b
    ELSE LET child == it.children[i]
             padding ==
                 Min(MaxSeq([k \in 1..Len(it.children) |->
                                it.children[k].name_length]),
                     opts.max_prop_name_padding)
             next ==
                 IF ~has_properties(it) /\ is_comment(child.item_type)
                 THEN push_str(
                          format_item(child, opts, indent + 1,
                              write_indent(opts, indent + 1, b)),
                          eol_string(opts))
                 ELSE IF has_properties(it) /\ is_comment_or_blank(child.item_type)
                 THEN b
                 ELSE LET b1 == write_indent(opts, indent + 1, b)
                          b2 == write_prefix_comment(child, opts, b1)
                          b3 == write_padded_name(child, opts, padding, b2)
                          b4 == IF opts.colon_padding
                                THEN push_str(b3, <<" ">>) ELSE b3
                          b5 == write_middle_comment(child, opts, indent + 1, b4)
                          b6 == format_item(child, opts, indent + 1, b5)
                          b7 == write_postfix_comment(child, opts, b6)
                          is_last == i = Len(it.children)
                          b8 == IF ~is_last \/ opts.allow_trailing_commas
                                THEN push_str(b7, comma(opts)) ELSE b7
                      IN  push_str(b8, eol_string(opts))
         IN  format_table_object_loop(it, opts, indent, i + 1, next)

format_table_object(it, opts, indent, b) ==
    LET b0 == enter(b, it, indent, "Table")
        b1 == push_str(write_indent(opts, indent, b0), <<"{">> \o eol_string(opts))
        b2 == format_table_object_loop(it, opts, indent, 1, b1)
    IN  push_str(write_indent(opts, indent, b2), <<"}">>)

format_expanded_array_loop(it, opts, indent, i, b) ==
    IF b.panicked \/ i > Len(it.children) THEN b
    ELSE LET child == it.children[i]
             should_align_numbers ==
                 /\ opts.number_list_alignment # "None"
                 /\ \A k \in 1..Len(it.children) :
                        it.children[k].item_type = "Number"
             all_numbers ==
                 IF should_align_numbers
                 THEN [k \in 1..Len(it.children) |-> it.children[k].value]
                 ELSE <<>>
             b1 == write_indent(opts, indent + 1, b)
             b2 == write_prefix_comment(child, opts, b1)
             b3 == IF should_align_numbers /\ child.item_type = "Number"
                   THEN push_str(b2,
                            format_number_aligned(child.value, opts, all_numbers))
                   ELSE format_item(child, opts, indent + 1, b2)
             b4 == write_postfix_comment(child, opts, b3)
             is_last == i = Len(it.children)
             b5 == IF ~is_last \/ (opts.allow_trailing_commas /\ ~is_empty(it))
                   THEN push_str(b4, comma(opts)) ELSE b4
         IN  format_expanded_array_loop(it, opts, indent, i + 1,
                 push_str(b5, eol_string(opts)))

format_expanded_array(it, opts, indent, b) ==
    LET b0 == enter(b, it, indent, "Expanded")
        b1 == push_str(write_indent(opts, indent, b0), <<"[">> \o eol_string(opts))
        b2 == format_expanded_array_loop(it, opts, indent, 1, b1)
    IN  push_str(write_indent(opts, indent, b2), <<"]">>)

format_inline_object_loop(it, opts, indent, i, b) ==
    IF b.panicked \/ i > Len(it.children) THEN b
    ELSE LET child == it.children[i]
             sep == IF i > 1 THEN push_str(b, comma(opts)) ELSE b
             next ==
                 IF ~has_properties(it) /\ is_comment(child.item_type)
                 THEN format_inline_value(child, opts, 0, sep)
                 ELSE IF has_properties(it) /\ is_comment_or_blank(child.item_type)
                 THEN b
                 ELSE LET b2 == write_prefix_comment(child, opts, sep)
                          b3 == push_str(
                                    write_quoted_property_name(child.name, b2),
                                    <<":">>)
                          b4 == IF opts.colon_padding
                                THEN push_str(b3, <<" ">>) ELSE b3
                          b5 == write_middle_comment(child, opts, indent, b4)
                          b6 == format_inline_value(child, opts, 0, b5)
                      IN  write_postfix_comment(child, opts, b6)
         IN  format_inline_object_loop(it, opts, indent, i + 1, next)

format_inline_object(it, opts, indent, b) ==
    LET b0 == enter(b, it, indent, "Inline")
        b1 == push_str(write_indent(opts, indent, b0), <<"{">>)
        pad == IF opts.nested_bracket_padding THEN <<" ">> ELSE <<>>
        b2 == IF ~is_empty(it)
              THEN push_str(
                       format_inline_object_loop(it, opts, indent, 1,
                           push_str(b1, pad)),
                       pad)
              ELSE IF opts.simple_bracket_padding THEN push_str(b1, <<" ">>)
              ELSE b1
    IN  push_str(b2, <<"}">>)

format_expanded_object_loop(it, opts, indent, i, b) ==
    IF b.panicked \/ i > Len(it.children) THEN b
    ELSE LET child == it.children[i]
             next ==
                 IF ~has_properties(it) /\ is_comment(child.item_type)
                 THEN push_str(
                          format_item(child, opts, indent + 1,
                              write_indent(opts, indent + 1, b)),
                          eol_string(opts))
                 ELSE IF has_properties(it) /\ is_comment_or_blank(child.item_type)
                 THEN b
                 ELSE LET b1 == write_indent(opts, indent + 1, b)
                          b2 == write_prefix_comment(child, opts, b1)
                          b3 == push_str(
                                    write_quoted_property_name(child.name, b2),
                                    <<":">>)
                          b4 == IF opts.colon_padding
                                THEN push_str(b3, <<" ">>) ELSE b3
                          b5 == write_middle_comment(child, opts, indent + 1, b4)
                          b6 == format_item(child, opts, indent + 1, b5)
                          b7 == write_postfix_comment(child, opts, b6)
                          is_last == i = Len(it.children)
                          b8 == IF ~is_last
                                     \/ (opts.allow_trailing_commas /\ ~is_empty(it))
                                THEN push_str(b7, comma(opts)) ELSE b7
                      IN  push_str(b8, eol_string(opts))
         IN  format_expanded_object_loop(it, opts, indent, i + 1, next)

format_expanded_object(it, opts, indent, b) ==
    LET b0 == enter(b, it, indent, "Expanded")
        b1 == push_str(write_indent(opts, indent, b0), <<"{">> \o eol_string(opts))
        b2 == format_expanded_object_loop(it, opts, indent, 1, b1)
    IN  push_str(write_indent(opts, indent, b2), <<"}">>)

\* format: the metrics pass, then the dispatcher on the root at indent 0.
format(root, opts, checks) ==
    format_item(from_root(root, opts), opts, 0, NewBuffer(checks))

(***************************************************************************)
(* lib.rs and transform.rs: format_jsonc's front end, on text without      *)
(* comments.  The parser reads the JSON grammar (trailing commas allowed)  *)
(* and transform builds the JsonItem tree: decoded string values and       *)
(* names, numbers as written, children in order.  Text holding a comment   *)
(* is outside this model of the parser: parse does not accept it.          *)
(***************************************************************************)
Whitespace == {" ", "\n", "\r", "\t"}

NumberChars == {"0", "1", "2", "3", "4", "5", "6", "7", "8", "9",
                "-", "+", ".", "e", "E"}

HexValue ==
    [c \in {HEX[k] : k \in 1..16} |-> (CHOOSE k \in 1..16 : HEX[k] = c) - 1]
        @@ ("A" :> 10) @@ ("B" :> 11) @@ ("C" :> 12) @@ ("D" :> 13)
        @@ ("E" :> 14) @@ ("F" :> 15)

ParseError == [ok |-> FALSE, item |-> <<>>, pos |-> 0]

ParseOk(it, pos) == [ok |-> TRUE, item |-> it, pos |-> pos]

RECURSIVE skip_whitespace(_, _)
skip_whitespace(s, i) ==
    IF i <= Len(s) /\ s[i] \in Whitespace THEN skip_whitespace(s, i + 1) ELSE i

RECURSIVE scan_number(_, _)
scan_number(s, i) ==
    IF i <= Len(s) /\ s[i] \in NumberChars THEN scan_number(s, i + 1) ELSE i

starts_with_at(s, i, lit) ==
    /\ i + Len(lit) - 1 <= Len(s)
    /\ SubSeq(s, i, i + Len(lit) - 1) = lit

\* decoded_value: the characters of a string literal from position i (after
\* the opening quote) to the closing quote, escape sequences processed.
RECURSIVE decoded_value(_, _, _)
decoded_value(s, i, acc) ==
    IF i > Len(s) THEN ParseError
    ELSE IF s[i] = "\"" THEN ParseOk(acc, i + 1)
    ELSE IF s[i] # "\\" THEN decoded_value(s, i + 1, Append(acc, s[i]))
    ELSE IF i + 1 > Len(s) THEN ParseError
    ELSE LET e == s[i + 1]
         IN  CASE e \in {"\"", "\\", "/"} -> decoded_value(s, i + 2, Append(acc, e))
               [] e = "n" -> decoded_value(s, i + 2, Append(acc, "\n"))
               [] e = "t" -> decoded_value(s, i + 2, Append(acc, "\t"))
               [] e = "r" -> decoded_value(s, i + 2, Append(acc, "\r"))
               [] e = "b" -> decoded_value(s, i + 2, Append(acc, "U+0008"))
               [] e = "f" -> decoded_value(s, i + 2, Append(acc, "\f"))
               [] e = "u" ->
                     IF /\ i + 5 <= Len(s)
                        /\ \A k \in 2..5 : s[i + k] \in DOMAIN HexValue
                     THEN LET code == HexValue[s[i + 2]] * 4096
                                          + HexValue[s[i + 3]] * 256
                                          + HexValue[s[i + 4]] * 16
                                          + HexValue[s[i + 5]]
                              chars == {c \in DOMAIN ControlCode :
                                            ControlCode[c] = code}
                          IN  IF chars = {} THEN ParseError
                              ELSE decoded_value(s, i + 6,
                                       Append(acc, CHOOSE c \in chars : TRUE))
                     ELSE ParseError
               [] OTHER -> ParseError

RECURSIVE parse_value(_, _)
RECURSIVE parse_array_elements(_, _, _)
RECURSIVE parse_object_properties(_, _, _)

\* transform_array: the elements after position i, up to the closing bracket.
parse_array_elements(s, i, acc) ==
    LET j == skip_whitespace(s, i)
    IN  IF j > Len(s) THEN ParseError
        ELSE IF s[j] = "]" THEN ParseOk(JsonItem("Array", <<>>, <<>>, acc), j + 1)
        ELSE LET v == parse_value(s, j)
                 k == skip_whitespace(s, v.pos)
             IN  IF ~v.ok \/ k > Len(s) THEN ParseError
                 ELSE IF s[k] = ","
                 THEN parse_array_elements(s, k + 1, Append(acc, v.item))
                 ELSE IF s[k] = "]"
                 THEN ParseOk(JsonItem("Array", <<>>, <<>>, Append(acc, v.item)),
                              k + 1)
                 ELSE ParseError

\* transform_object: the properties after position i, up to the closing
\* brace; a property without a name is dropped.
parse_object_properties(s, i, acc) ==
    LET j == skip_whitespace(s, i)
    IN  IF j > Len(s) THEN ParseError
        ELSE IF s[j] = "}" THEN ParseOk(JsonItem("Object", <<>>, <<>>, acc), j + 1)
        ELSE IF s[j] # "\"" THEN ParseError
        ELSE LET name == decoded_value(s, j + 1, <<>>)
                 c == IF name.ok THEN skip_whitespace(s, name.pos) ELSE 0
             IN  IF ~name.ok \/ c > Len(s) THEN ParseError
                 ELSE IF s[c] # ":" THEN ParseError
                 ELSE LET v == parse_value(s, c + 1)
                          k == skip_whitespace(s, v.pos)
                          acc1 == IF ~v.ok \/ name.item = <<>> THEN acc
                                  ELSE Append(acc, [v.item EXCEPT !.name = name.item])
                      IN  IF ~v.ok \/ k > Len(s) THEN ParseError
                          ELSE IF s[k] = ","
                          THEN parse_object_properties(s, k + 1, acc1)
                          ELSE IF s[k] = "}"
                          THEN ParseOk(JsonItem("Object", <<>>, <<>>, acc1), k + 1)
                          ELSE ParseError

\* transform_node: the value starting at or after position i.
parse_value(s, i) ==
    LET j == skip_whitespace(s, i)
    IN  IF j > Len(s) THEN ParseError
        ELSE CASE s[j] = "[" -> parse_array_elements(s, j + 1, <<>>)
               [] s[j] = "{" -> parse_object_properties(s, j + 1, <<>>)
               [] s[j] = "\"" ->
                     LET v == decoded_value(s, j + 1, <<>>)
                     IN  IF v.ok
                         THEN ParseOk(JsonItem("String", <<>>, v.item, <<>>), v.pos)
                         ELSE ParseError
               [] s[j] \in NumberChars \ {"+", ".", "e", "E"} ->
                     LET k == scan_number(s, j)
                     IN  ParseOk(JsonItem("Number", <<>>, SubSeq(s, j, k - 1), <<>>), k)
               [] starts_with_at(s, j, <<"t", "r", "u", "e">>) ->
                     ParseOk(JsonItem("True", <<>>, <<"t", "r", "u", "e">>, <<>>), j + 4)
               [] starts_with_at(s, j, <<"f", "a", "l", "s", "e">>) ->
                     ParseOk(JsonItem("False", <<>>, <<"f", "a", "l", "s", "e">>, <<>>),
                             j + 5)
               [] starts_with_at(s, j, <<"n", "u", "l", "l">>) ->
                     ParseOk(JsonItem("Null", <<>>, <<"n", "u", "l", "l">>, <<>>), j + 4)
               [] OTHER -> ParseError

\* CstRootNode::parse then transform: one value and nothing after it.
parse(s) ==
    LET v == parse_value(s, 1)
    IN  IF v.ok /\ skip_whitespace(s, v.pos) = Len(s) + 1 THEN v ELSE ParseError

(***************************************************************************)
(* The inputs: bounded JsonItem trees and option records.                  *)
(***************************************************************************)
Number(v) == JsonItem("Number", <<>>, v, <<>>)

String(v) == JsonItem("String", <<>>, v, <<>>)

LineCommentNode == JsonItem("LineComment", <<>>, <<"/", "/", "s">>, <<>>)

\* The member name of the i-th property.
PropName(i) == IF i % 3 = 1 THEN <<"a">> ELSE IF i % 3 = 2 THEN <<"b", "b">> ELSE <<"c">>

\* Only the children of an Object carry a name.
Container(t, kids) ==
    JsonItem(t, <<>>, <<>>,
        IF t = "Object"
        THEN [i \in 1..Len(kids) |->
                 IF is_comment_or_blank(kids[i].item_type) THEN kids[i]
                 ELSE [kids[i] EXCEPT !.name = PropName(i)]]
        ELSE kids)

Scalars == {Number(<<"1">>), Number(<<"2", "2">>), String(<<"a">>)}

FlatContainers ==
    {Container(t, kids) : t \in {"Array", "Object"},
                          kids \in SeqsUpTo(Scalars, MaxChildren)}

\* The rows of a container of rows: same-valued cells, any length.
Rows ==
    {Container(t, [i \in 1..k |-> Number(<<"1">>)]) :
         t \in {"Array", "Object"}, k \in 0..MaxChildren}
        \cup {Number(<<"1">>)}

\* The row lists: a first row followed by copies of a second one.
RowSeqs ==
    {<<r1>> \o [i \in 1..k |-> r2] :
         r1 \in Rows, r2 \in Rows, k \in 0..(MaxRows - 1)}

NestedContainers ==
    {Container(t, kids) : t \in {"Array", "Object"}, kids \in RowSeqs}

\* Containers holding a standalone comment node.
CommentContainers ==
    {Container(t, kids) : t \in {"Array", "Object"},
                          kids \in {<<LineCommentNode>>}}
        \cup {Container("Array", <<Number(<<"1">>), LineCommentNode>>)}

BaseTrees == Scalars \cup FlatContainers \cup NestedContainers \cup CommentContainers

PrefixText == <<"/", "*", "p", "*", "/">>

MiddleText == <<"/", "*", "m", "*", "/">>

PostfixText == <<"/", "/", "q">>

CommentKinds == {"prefix", "middle", "postfix"}

Attach(it, kind) ==
    CASE kind = "prefix" -> [it EXCEPT !.prefix_comment = Some(PrefixText)]
      [] kind = "middle" -> [it EXCEPT !.middle_comment = Some(MiddleText)]
      [] kind = "postfix" -> [it EXCEPT !.postfix_comment = Some(PostfixText)]

\* The tree with a comment attached to the node at `path` (child indices).
RECURSIVE AttachAt(_, _, _)
AttachAt(it, path, kind) ==
    IF path = <<>> THEN Attach(it, kind)
    ELSE [it EXCEPT !.children[Head(path)] = AttachAt(@, Tail(path), kind)]

RECURSIVE NodeAt(_, _)
NodeAt(it, path) ==
    IF path = <<>> THEN it ELSE NodeAt(it.children[Head(path)], Tail(path))

\* The paths of the nodes of a tree, the root's (<<>>) included.
RECURSIVE Paths(_)
Paths(it) ==
    {<<>>} \cup UNION {{<<i>> \o p : p \in Paths(it.children[i])} :
                          i \in 1..Len(it.children)}

\* Comments annotate values: a comment is attached to a scalar or a
\* container, never to a standalone comment node.
\* The nodes a comment is attached to are the root and, level by level, the
\* first and the last child.
RECURSIVE EdgePaths(_)
EdgePaths(it) ==
    {<<>>} \cup UNION {{<<i>> \o p : p \in EdgePaths(it.children[i])} :
                          i \in ({1, Len(it.children)} \cap (1..Len(it.children)))}

CommentablePaths(it) ==
    {p \in EdgePaths(it) : ~is_comment_or_blank(NodeAt(it, p).item_type)}

Trees ==
    BaseTrees \cup
    UNION {{AttachAt(t, p, k) : p \in CommentablePaths(t), k \in CommentKinds} :
              t \in BaseTrees}

OptionSets ==
    {DefaultOptions,
     [DefaultOptions EXCEPT !.max_total_line_length = 0],
     [DefaultOptions EXCEPT !.max_total_line_length = 0,
                            !.min_compact_array_row_items = 2],
     [DefaultOptions EXCEPT !.max_total_line_length = 14,
                            !.max_inline_complexity = 2],
     [DefaultOptions EXCEPT !.max_inline_complexity = 0],
     [DefaultOptions EXCEPT !.max_inline_complexity = 0,
                            !.min_compact_array_row_items = 2],
     [DefaultOptions EXCEPT !.max_table_row_complexity = 2],
     [DefaultOptions EXCEPT !.min_compact_array_row_items = 2],
     [DefaultOptions EXCEPT !.comment_policy = "Remove"],
     [DefaultOptions EXCEPT !.comment_policy = "Remove",
                            !.max_table_row_complexity = 2],
     [DefaultOptions EXCEPT !.comment_policy = "Remove",
                            !.min_compact_array_row_items = 2]}

\* The characters of the string values: a plain one, the seven with a
\* two-character escape, two other control characters and DEL (U+007F).
Alphabet ==
    {"a", "\\", "\"", "\n", "\t", "\r", "U+0008", "\f", "U+0001", "U+001F",
     "U+007F"}

StringValues == UNION {[1..n -> Alphabet] : n \in 0..MaxStrLen}

\* A String at the root.
StringTrees == {String(v) : v \in StringValues}

\* A two-column table: the first row's string cell varies.
StringTables ==
    {Container("Array",
         <<Container("Array", <<String(v), Number(<<"1">>)>>),
           Container("Array", <<String(<<"a">>), Number(<<"1">>)>>)>>) :
         v \in StringValues}

TableOptions == [DefaultOptions EXCEPT !.max_table_row_complexity = 2]

BlankLineNode == JsonItem("BlankLine", <<>>, <<>>, <<>>)

\* The trees with at most two children per container, and two with a
\* blank-line node.
NarrowTrees ==
    {t \in Trees :
         /\ Len(t.children) <= 2
         /\ \A i \in 1..Len(t.children) : Len(t.children[i].children) <= 2}
        \cup {Container("Array", <<Number(<<"1">>), BlankLineNode>>),
              Container("Array", <<BlankLineNode, Container("Array", <<BlankLineNode>>)>>)}

\* Both explicit end-of-line styles, with the budgets that reach each
\* renderer.
EolOptionSets ==
    {[o EXCEPT !.json_eol_style = e] :
         o \in {DefaultOptions,
                TableOptions,
                [DefaultOptions EXCEPT !.max_inline_complexity = 0,
                                       !.min_compact_array_row_items = 2]},
         e \in {"Crlf", "Lf"}}

\* Containers holding standalone comment or blank-line nodes next to, or
\* instead of, values.
MixedContainers ==
    {Container(t, kids) :
         t \in {"Array", "Object"},
         kids \in {<<Number(<<"1">>), LineCommentNode>>,
                   <<LineCommentNode, Number(<<"1">>)>>,
                   <<LineCommentNode, LineCommentNode>>,
                   <<Number(<<"1">>), BlankLineNode>>,
                   <<BlankLineNode, Number(<<"1">>)>>,
                   <<Number(<<"1">>), LineCommentNode, Number(<<"2", "2">>)>>}}

\* An inline array of a string, a number and a one-element array.
StringArrays ==
    {Container("Array",
         <<String(v), Number(<<"1">>), Container("Array", <<Number(<<"1">>)>>)>>) :
         v \in StringValues}

\* Budgets under which a container of containers is Inline.
InlineOptions == [DefaultOptions EXCEPT !.max_inline_complexity = 2]

\* The trees the layout options are tried on.
LayoutTrees == FlatContainers \cup NestedContainers \cup CommentContainers
                   \cup MixedContainers

\* Budgets under which no container is Inline or Table.
ExpandedOptions ==
    [DefaultOptions EXCEPT !.max_inline_complexity = 0,
                           !.max_table_row_complexity = 0]

\* The layout options, one changed at a time.
LayoutOptionSets ==
    {DefaultOptions,
     ExpandedOptions,
     [ExpandedOptions EXCEPT !.use_tab_to_indent = TRUE],
     [ExpandedOptions EXCEPT !.indent_spaces = 2],
     [ExpandedOptions EXCEPT !.allow_trailing_commas = TRUE],
     [ExpandedOptions EXCEPT !.colon_before_prop_name_padding = TRUE],
     [ExpandedOptions EXCEPT !.max_prop_name_padding = 1],
     [ExpandedOptions EXCEPT !.number_list_alignment = "Left"],
     [ExpandedOptions EXCEPT !.number_list_alignment = "Left",
                             !.min_compact_array_row_items = 2],
     [DefaultOptions EXCEPT !.number_list_alignment = "Left",
                            !.max_inline_complexity = 0],
     [DefaultOptions EXCEPT !.max_total_line_length = 6,
                            !.min_compact_array_row_items = 2],
     [DefaultOptions EXCEPT !.table_comma_placement = "NextLine",
                            !.max_inline_complexity = 0,
                            !.max_table_row_complexity = 2]}

\* The calls of format: a tree and an options record.
Inputs ==
    (Trees \X OptionSets)
        \cup (StringTrees \X {DefaultOptions})
        \cup (StringTables \X {TableOptions})
        \cup (NarrowTrees \X EolOptionSets)
        \cup (LayoutTrees \X LayoutOptionSets)
        \cup (StringArrays \X {InlineOptions})

(***************************************************************************)
(* The state machine: one call of format.                                  *)
(***************************************************************************)
Init ==
    /\ \E in \in Inputs : item = in[1] /\ options = in[2]
    /\ computed = None
    /\ buffer = <<>>
    /\ calls = {}
    /\ pc = "start"

\* formatter.rs line 8: the metrics pass builds the computed tree.
FromRoot ==
    /\ pc = "start"
    /\ computed' = from_root(item, options)
    /\ pc' = "computed"
    /\ UNCHANGED <<item, options, buffer, calls>>

\* formatter.rs lines 13-16: the dispatcher renders the root at indent 0 and
\* format returns the buffer, or the call panics.  The build decides whether
\* unsigned arithmetic is checked.
FormatItem ==
    /\ pc = "computed"
    /\ \E overflow_checks \in BOOLEAN :
          LET b == format_item(computed, options, 0, NewBuffer(overflow_checks))
          IN  /\ buffer' = IF b.panicked THEN <<>> ELSE b.text
              /\ calls' = b.calls
              /\ pc' = IF b.panicked THEN "panicked" ELSE "done"
    /\ UNCHANGED <<item, options, computed>>

Next == FromRoot \/ FormatItem

Spec == Init /\ [][Next]_vars

(***************************************************************************)
(* Vocabulary of the properties.                                           *)
(***************************************************************************)
Returned == pc = "done"

Finished == pc \in {"done", "panicked"}

\* Some node of the subtree (the node itself included) carries a comment.
RECURSIVE CommentInSubtree(_)
CommentInSubtree(it) ==
    \/ has_comments(it)
    \/ \E i \in 1..Len(it.children) : CommentInSubtree(it.children[i])

\* The tree with every attached comment cleared and every comment node removed.
RECURSIVE StripComments(_)
StripComments(it) ==
    [it EXCEPT !.prefix_comment = None,
               !.middle_comment = None,
               !.postfix_comment = None,
               !.children =
                   LET kept == SelectSeq(it.children,
                                   LAMBDA c : ~is_comment(c.item_type))
                   IN  [i \in 1..Len(kept) |-> StripComments(kept[i])]]

\* Every comment text of the tree: attached comments and comment nodes.
RECURSIVE CommentTexts(_)
CommentTexts(it) ==
    {it.prefix_comment[i] : i \in 1..Len(it.prefix_comment)}
        \cup {it.middle_comment[i] : i \in 1..Len(it.middle_comment)}
        \cup {it.postfix_comment[i] : i \in 1..Len(it.postfix_comment)}
        \cup (IF is_comment(it.item_type) THEN {it.value} ELSE {})
        \cup UNION {CommentTexts(it.children[i]) : i \in 1..Len(it.children)}

\* The lines of a text: the runs between line feeds.
LineBreaks(s) == {i \in 1..Len(s) : s[i] = "\n"}

Lines(s) ==
    LET breaks == LineBreaks(s)
        \* the position of the k-th line feed; 0 and Len(s)+1 bracket the text
        at(k) == IF k = 0 THEN 0
                 ELSE IF k > Cardinality(breaks) THEN Len(s) + 1
                 ELSE CHOOSE i \in breaks :
                          Cardinality({j \in breaks : j < i}) = k - 1
    IN  [k \in 1..(Cardinality(breaks) + 1) |->
            SubSeq(s, at(k - 1) + 1, at(k) - 1)]

Quoted(s) == <<"\"">> \o s \o <<"\"">>

Renderers == {"Inline", "CompactArray", "Table", "Expanded"}

\* The root container was rendered by `renderer`.
RootRendered(renderer) ==
    \E c \in calls : c.item = computed /\ c.indent = 0 /\ c.renderer = renderer

\* Every child is an Object with the member names of the first child.
UniformObjectChildren(it) ==
    \A i \in 1..Len(it.children) :
        /\ it.children[i].item_type = "Object"
        /\ get_property_names(it.children[i]) = get_property_names(it.children[1])

(***************************************************************************)
(* The claims.                                                             *)
(***************************************************************************)
\* C1: format is total: for every well-formed tree and every options record
\* the call returns a text and never panics.
C1_FormatIsTotal == pc # "panicked"

\* C2: with max_total_line_length = 0 and indent_spaces >= 1 format returns
\* normally and no container is rendered Inline.
C2_ZeroBudgetIsTolerated ==
    (Finished /\ options.max_total_line_length = 0 /\ options.indent_spaces >= 1)
        => (pc = "done" /\ \A c \in calls : c.renderer # "Inline")

\* C3: for every container format_item dispatches on, exactly one renderer is
\* entered, chosen in the order Inline, CompactArray (arrays only), Table,
\* Expanded; an Object is never CompactArray and Expanded is chosen exactly
\* when the three earlier predicates are false.
C3_ModeTotalityAndPrecedence ==
    /\ (Finished /\ is_structural(item.item_type))
           => \E c \in calls : c.item = computed /\ c.indent = 0
    /\ \A c \in calls :
        LET inline == should_inline(c.item, options, c.indent)
            compact == /\ c.item.item_type = "Array"
                       /\ should_format_as_compact_array(c.item, options, c.indent)
            table == should_format_as_table(c.item, options, c.indent)
        IN  /\ c.renderer \in Renderers
            /\ (c.renderer = "Inline") <=> inline
            /\ (c.renderer = "CompactArray") <=> (~inline /\ compact)
            /\ (c.renderer = "Table") <=> (~inline /\ ~compact /\ table)
            /\ (c.renderer = "Expanded") <=> (~inline /\ ~compact /\ ~table)
            /\ c.item.item_type = "Object" => c.renderer # "CompactArray"
            /\ \A d \in calls :
                   (d.item = c.item /\ d.indent = c.indent)
                       => d.renderer = c.renderer

\* C3 witness: an array eligible both for CompactArray and for Table was
\* rendered CompactArray.
C3_Witness ==
    /\ Returned
    /\ \E c \in calls :
          /\ c.renderer = "CompactArray"
          /\ should_format_as_table(c.item, options, c.indent)

\* C4: a container dispatched at indent d is rendered Inline iff it is not
\* forced-multiline, carries no comment itself, its complexity is at most
\* max_inline_complexity and minimum_length + d*indent_spaces is at most
\* max_total_line_length.
C4_InlineIffFourConditions ==
    \A c \in calls :
        (c.renderer = "Inline") <=>
            /\ ~c.item.requires_multiple_lines
            /\ ~is_some(c.item.prefix_comment)
            /\ ~is_some(c.item.middle_comment)
            /\ ~is_some(c.item.postfix_comment)
            /\ c.item.complexity <= options.max_inline_complexity
            /\ c.item.minimum_total_length + c.indent * options.indent_spaces
                   <= options.max_total_line_length

\* C4 witness: a container that fits the budget at indent 0 but not at its
\* own indent was not rendered Inline, next to one that was.
C4_Witness ==
    /\ Returned
    /\ \E c \in calls :
          /\ c.renderer # "Inline"
          /\ c.indent > 0
          /\ ~c.item.requires_multiple_lines
          /\ ~has_comments(c.item)
          /\ c.item.complexity <= options.max_inline_complexity
          /\ c.item.minimum_total_length <= options.max_total_line_length
    /\ \E c \in calls : c.renderer = "Inline" /\ c.indent > 0

\* C5: an Array whose subtree contains a node with an attached comment is
\* never rendered Inline, CompactArray or Table.
C5_CommentedArrayIsExpanded ==
    \A c \in calls :
        (c.item.item_type = "Array" /\ CommentInSubtree(c.item))
            => c.renderer \notin {"Inline", "CompactArray", "Table"}

\* C6 as stated: a forced-multiline, non-empty Object within the table
\* complexity budget whose children are all Objects with the same ordered
\* member-name list is rendered Table; a forced-multiline Array never is.
C6_ForcedObjectTable_Original ==
    \A c \in calls :
        /\ ( /\ c.item.item_type = "Object"
             /\ c.item.requires_multiple_lines
             /\ ~is_empty(c.item)
             /\ c.item.complexity <= options.max_table_row_complexity
             /\ UniformObjectChildren(c.item) )
               => c.renderer = "Table"
        /\ (c.item.item_type = "Array" /\ c.item.requires_multiple_lines)
               => c.renderer # "Table"

\* C6 amended: the same, for children that are Objects with the same
\* non-empty ordered member-name list.
C6_ForcedObjectTable ==
    \A c \in calls :
        /\ ( /\ c.item.item_type = "Object"
             /\ c.item.requires_multiple_lines
             /\ ~is_empty(c.item)
             /\ c.item.complexity <= options.max_table_row_complexity
             /\ UniformObjectChildren(c.item)
             /\ Len(c.item.children[1].children) > 0 )
               => c.renderer = "Table"
        /\ (c.item.item_type = "Array" /\ c.item.requires_multiple_lines)
               => c.renderer # "Table"

\* C6 witness: a forced-multiline Object was rendered Table.
C6_Witness ==
    /\ Returned
    /\ \E c \in calls :
          /\ c.item.item_type = "Object"
          /\ c.item.requires_multiple_lines
          /\ c.renderer = "Table"

\* C7: with comment_policy = Remove the output is byte-identical to the
\* output for the tree with every comment cleared and every comment node
\* removed.
C7_RemoveIgnoresComments ==
    (Returned /\ options.comment_policy = "Remove")
        => \A checks \in BOOLEAN :
               LET b == format(StripComments(item), options, checks)
               IN  ~b.panicked => buffer = b.text

\* C8: with comment_policy = Remove no comment text (attached prefix, middle
\* or postfix comment, or the value of a comment node) is in the output.
C8_RemoveWritesNoComment ==
    (Returned /\ options.comment_policy = "Remove")
        => \A t \in CommentTexts(item) : ~Contains(buffer, t)

\* C8 witness: a tree with an attached comment and a comment node was
\* formatted under Remove.
C8_Witness ==
    /\ Returned
    /\ options.comment_policy = "Remove"
    /\ \E i \in 1..Len(item.children) : has_comments(item.children[i])
    /\ \E i \in 1..Len(item.children) : is_comment(item.children[i].item_type)

\* C9: with comment_policy = Preserve every prefix and postfix comment
\* attached to a non-root node is in the returned output verbatim, whatever
\* renderer its parent and ancestors got.
C9_PreserveKeepsComments ==
    (Returned /\ options.comment_policy = "Preserve")
        => \A p \in Paths(item) \ {<<>>} :
               LET n == NodeAt(item, p)
               IN  /\ is_some(n.prefix_comment)
                          => Contains(buffer, n.prefix_comment[1])
                   /\ is_some(n.postfix_comment)
                          => Contains(buffer, n.postfix_comment[1])

\* C9 witness: a CompactArray holding a child with a prefix or postfix
\* comment was written under Preserve.
C9_Witness ==
    /\ Returned
    /\ options.comment_policy = "Preserve"
    /\ \E c \in calls :
          /\ c.renderer = "CompactArray"
          /\ \E i \in 1..Len(c.item.children) :
                 \/ is_some(c.item.children[i].prefix_comment)
                 \/ is_some(c.item.children[i].postfix_comment)

\* C10: when the root Array of uniform Object rows is rendered Table, the
\* line of each row holds every property name (quoted, with its colon) and
\* every value of that row.
C10_TableRowsKeepContent ==
    ( /\ Returned
      /\ computed.item_type = "Array"
      /\ RootRendered("Table")
      /\ UniformObjectChildren(computed) )
        => \A i \in 1..Len(computed.children) :
               \A k \in 1..Len(computed.children[i].children) :
                   LET line == Lines(buffer)[i + 1]
                       cell == computed.children[i].children[k]
                   IN  /\ Contains(line, Quoted(cell.name) \o <<":">>)
                       /\ Contains(line, format_value_simple(cell))

\* The position of the i-th comma of a line.
NthComma(line, i) ==
    CHOOSE p \in 1..Len(line) :
        /\ line[p] = ","
        /\ Cardinality({q \in 1..(p - 1) : line[q] = ","}) = i - 1

\* The cells of a table row: the children of a container, or the scalar.
RowCells(row) ==
    IF row.item_type \in {"Object", "Array"} THEN row.children ELSE <<row>>

\* C11: when the root Array is rendered Table, the separating comma of every
\* column other than the last is at the same offset in all rows (cell text
\* plus padding occupies the same number of characters in every row).
C11_TableColumnsAligned ==
    (Returned /\ computed.item_type = "Array" /\ RootRendered("Table"))
        => \A r1, r2 \in 1..Len(computed.children) :
               \A i \in 1..(Min(Len(RowCells(computed.children[r1])),
                                 Len(RowCells(computed.children[r2]))) - 1) :
                   NthComma(Lines(buffer)[r1 + 1], i)
                       = NthComma(Lines(buffer)[r2 + 1], i)

\* C12: in every Array rendered Table, the width estimate of a String cell
\* is at least the length of its escaped text, and the text of a cell that
\* is padded never exceeds the computed width of its column.
C12_TableWidthSafety ==
    \A c \in calls :
        (c.renderer = "Table" /\ c.item.item_type = "Array")
            => LET column_widths ==
                       calculate_table_column_widths(c.item.children,
                                                     c.indent + 1, options)
               IN  \A r \in 1..Len(c.item.children) :
                       LET cells == RowCells(c.item.children[r])
                           values == get_column_values(c.item.children[r])
                       IN  \A k \in 1..Len(cells) :
                               /\ cells[k].item_type = "String"
                                      => calculate_value_display_length(cells[k])
                                             >= Len(escape_string(cells[k].value))
                               /\ (k < Len(cells) /\ k <= Len(column_widths))
                                      => Len(values[k]) <= column_widths[k]

\* The metrics pass has run: computed is the augmented view of item.
Computed == pc # "start"

\* C13: in the augmented view every scalar, comment and blank-line node has
\* complexity 0, every container has complexity 1 + the maximum of its
\* children's complexities (1 without children), and a container's
\* complexity is strictly greater than that of each child.
C13_ComplexityMonotone ==
    Computed
        => \A p \in Paths(computed) :
               LET n == NodeAt(computed, p)
                   kids == {n.children[i].complexity : i \in 1..Len(n.children)}
               IN  /\ n.item_type \notin {"Array", "Object"} => n.complexity = 0
                   /\ (n.item_type \in {"Array", "Object"} /\ kids = {})
                          => n.complexity = 1
                   /\ (n.item_type \in {"Array", "Object"} /\ kids # {})
                          => /\ n.complexity - 1 \in kids
                             /\ \A k \in kids : k < n.complexity

\* C13 witness: a container holding an empty container and a scalar or
\* comment node was measured.
C13_Witness ==
    /\ Computed
    /\ computed.complexity = 2
    /\ \E i \in 1..Len(computed.children) :
          /\ is_structural(computed.children[i].item_type)
          /\ is_empty(computed.children[i])
    /\ \E i \in 1..Len(computed.children) :
          computed.children[i].item_type \notin {"Array", "Object"}

\* C14: in the augmented view, when a node has requires_multiple_lines then
\* every ancestor of that node has requires_multiple_lines.
C14_ForcingMonotone ==
    Computed
        => \A p \in Paths(computed) :
               NodeAt(computed, p).requires_multiple_lines
                   => \A k \in 0..(Len(p) - 1) :
                          NodeAt(computed, SubSeq(p, 1, k)).requires_multiple_lines

\* C14 witness: a child of the root is forced-multiline (by a comment on a
\* grandchild).
C14_Witness ==
    /\ Computed
    /\ \E i \in 1..Len(computed.children) :
          /\ computed.children[i].requires_multiple_lines
          /\ ~has_comments(computed.children[i])

\* C15: a container is forced-multiline iff it or one of its descendants
\* carries an attached comment or a descendant is a standalone comment node;
\* a scalar, comment or blank-line node is never forced-multiline.
C15_ForcedIffCommentInSubtree ==
    Computed
        => \A p \in Paths(computed) :
               LET n == NodeAt(computed, p)
               IN  IF n.item_type \in {"Array", "Object"}
                   THEN n.requires_multiple_lines
                            <=> (CommentInSubtree(n) \/ CommentTexts(n) # {})
                   ELSE ~n.requires_multiple_lines

\* C16: for a comment-free tree whose root is rendered Inline (at indent 0),
\* the root's minimum_total_length equals the length of the text produced.
C16_MinimumLengthIsInlineLength ==
    ( /\ Returned
      /\ ~CommentInSubtree(item)
      /\ CommentTexts(item) = {}
      /\ RootRendered("Inline") )
        => Len(buffer) = computed.minimum_total_length

\* A line without its leading spaces.
RECURSIVE TrimLeft(_)
TrimLeft(line) ==
    IF line # <<>> /\ Head(line) = " " THEN TrimLeft(Tail(line)) ELSE line

\* The call the claim C17 is about: a comment-free, non-empty Array of
\* Numbers with fewer than min_compact_array_row_items children, under the
\* default options with max_inline_complexity = 0.
SmallNumberArrayCall ==
    /\ Returned
    /\ options = [DefaultOptions EXCEPT !.max_inline_complexity = 0]
    /\ item.item_type = "Array"
    /\ ~CommentInSubtree(item)
    /\ Len(item.children) \in 1..(options.min_compact_array_row_items - 1)
    /\ \A i \in 1..Len(item.children) : item.children[i].item_type = "Number"

\* The text is one number per line between the brackets, a comma after
\* every number except the last.
OneNumberPerLine ==
    LET n == Len(item.children)
        lines == Lines(buffer)
    IN  /\ Len(lines) = n + 2
        /\ lines[1] = <<"[">>
        /\ lines[n + 2] = <<"]">>
        /\ \A i \in 1..n :
               TrimLeft(lines[i + 1])
                   = item.children[i].value \o (IF i < n THEN <<",">> ELSE <<>>)

\* C17 as stated: such an array is rendered in Expanded mode, one number
\* per line, a comma after every number except the last.
C17_SmallNumberArray_Original ==
    SmallNumberArrayCall => (RootRendered("Expanded") /\ OneNumberPerLine)

\* C17 amended: such an array is rendered in Table mode (every child has
\* the same table-eligible type), one number per line, a comma after every
\* number except the last.
C17_SmallNumberArrayIsTable ==
    SmallNumberArrayCall => (RootRendered("Table") /\ OneNumberPerLine)

\* C17 witness: an array of three numbers was formatted with
\* max_inline_complexity = 0.
C17_Witness ==
    /\ SmallNumberArrayCall
    /\ Len(item.children) = 3
    /\ RootRendered("Table")

\* The tree holds values only: no attached comment, no comment node and no
\* blank-line node.
PlainTree(it) ==
    \A p \in Paths(it) :
        /\ ~has_comments(NodeAt(it, p))
        /\ ~is_comment_or_blank(NodeAt(it, p).item_type)

\* C18: with comment_policy = Preserve the output parses back into a tree
\* and formatting that tree again with the same options yields the same
\* text.  Stated for the trees of values only, whose output is plain JSON.
C18_ReparseIsIdempotent ==
    (Returned /\ options.comment_policy = "Preserve" /\ PlainTree(item))
        => LET reparsed == parse(buffer)
           IN  /\ reparsed.ok
               /\ \E checks \in BOOLEAN :
                      LET b == format(reparsed.item, options, checks)
                      IN  ~b.panicked /\ b.text = buffer

\* C19: every line break in the output is exactly eol_string(): under Crlf
\* every line feed follows a carriage return, and a carriage return is
\* written only under Crlf and only before a line feed.
C19_EolIsExact ==
    Returned
        => /\ \A i \in 1..Len(buffer) :
                  (buffer[i] = "\n" /\ options.json_eol_style = "Crlf")
                      => (i > 1 /\ buffer[i - 1] = "\r")
           /\ \A i \in 1..Len(buffer) :
                  buffer[i] = "\r"
                      => /\ options.json_eol_style = "Crlf"
                         /\ i < Len(buffer)
                         /\ buffer[i + 1] = "\n"
           /\ eol_string(options) =
                  (IF options.json_eol_style = "Crlf" THEN <<"\r", "\n">>
                   ELSE <<"\n">>)

\* C19 witness: under Crlf an Expanded root with a middle comment on a child
\* was written.
C19_Witness ==
    /\ Returned
    /\ options.json_eol_style = "Crlf"
    /\ RootRendered("Expanded")
    /\ \E i \in 1..Len(item.children) : is_some(item.children[i].middle_comment)
    /\ Contains(buffer, MiddleText)

\* The escape the claim C20 gives for a character.
ExpectedEscape(c) ==
    CASE c = "\\" -> <<"\\", "\\">>
      [] c = "\"" -> <<"\\", "\"">>
      [] c = "\n" -> <<"\\", "n">>
      [] c = "\t" -> <<"\\", "t">>
      [] c = "\r" -> <<"\\", "r">>
      [] c = "U+0008" -> <<"\\", "b">>
      [] c = "\f" -> <<"\\", "f">>
      [] c = "U+0001" -> <<"\\", "u", "0", "0", "0", "1">>
      [] c = "U+001F" -> <<"\\", "u", "0", "0", "1", "f">>
      [] OTHER -> <<c>>

\* C20: a String is written between quotes with backslash, double quote,
\* newline, tab, carriage return, backspace and form feed as their
\* two-character escapes, any other character up to U+001F as \u00XX with
\* lowercase hex digits and every other character as itself; a string with
\* none of these is written unchanged.
C20_EscapeString ==
    (Returned /\ item.item_type = "String")
        => /\ buffer = Quoted(Flatten([i \in 1..Len(item.value) |->
                                          ExpectedEscape(item.value[i])]))
           /\ (\A i \in 1..Len(item.value) : item.value[i] \in {"a", "U+007F"})
                  => buffer = Quoted(item.value)
           /\ escape_string(item.value) = SubSeq(buffer, 2, Len(buffer) - 1)

\* C20 witness: a string holding a form feed and U+001F was written.
C20_Witness ==
    /\ Returned
    /\ item.item_type = "String"
    /\ item.value = <<"\f", "U+001F">>
    /\ Len(buffer) = 10

\* The number of a character in a text.
CountOf(s, c) == Cardinality({i \in 1..Len(s) : s[i] = c})

\* The values on a line: the runs of characters other than commas, spaces
\* and tabs.
ValuesOnLine(line) ==
    Cardinality({i \in 1..Len(line) :
                    /\ line[i] \notin {",", " ", "\t", "\r"}
                    /\ (i = 1 \/ line[i - 1] \in {",", " ", "\t", "\r"})})

\* The lines between the line of the opening bracket and the line of the
\* closing one.
InnerLines(s) == LET l == Lines(s) IN SubSeq(l, 2, Len(l) - 1)

\* The last character of a line other than a space or a carriage return,
\* or "" when the line has none.
LastVisible(line) ==
    LET seen == {i \in 1..Len(line) : line[i] \notin {" ", "\r"}}
    IN  IF seen = {} THEN ""
        ELSE line[CHOOSE i \in seen : \A j \in seen : j <= i]

\* Every child is a scalar value without comments.
ScalarChildren(it) ==
    \A i \in 1..Len(it.children) :
        /\ it.children[i].item_type \in {"String", "Number", "True", "False", "Null"}
        /\ ~has_comments(it.children[i])

\* C21: an Array of n scalar children rendered as CompactArray with
\* k = items_per_row has k children on every line between the brackets but
\* possibly the last, n-1 commas in total, no comma on a line of its own and
\* no comma after the last child (checked where the available width is
\* computed without underflow).
C21_CompactArrayPacking ==
    (/\ Returned
     /\ RootRendered("CompactArray")
     /\ ScalarChildren(item)
     /\ options.max_total_line_length >= options.indent_spaces)
        => LET n == Len(item.children)
               k == calculate_items_per_row(computed, options, 0, FALSE).value
               inner == InnerLines(buffer)
           IN  /\ Len(inner) >= 1
               /\ \A j \in 1..(Len(inner) - 1) : ValuesOnLine(inner[j]) = k
               /\ \A j \in 1..Len(inner) : ValuesOnLine(inner[j]) \in 1..k
               /\ CountOf(buffer, ",") = n - 1
               /\ LastVisible(inner[Len(inner)]) # ","

\* The type a child brings to a table of an Array: its own type for a scalar
\* value or a non-empty container, "none" for an empty container, a comment
\* or a blank line.
TableEligibleType(it) ==
    IF it.item_type \in {"String", "Number", "True", "False", "Null"}
    THEN it.item_type
    ELSE IF it.item_type \in {"Object", "Array"} /\ Len(it.children) > 0
    THEN it.item_type
    ELSE "none"

\* The ordered member names of an Object.
MemberNames(it) == [i \in 1..Len(it.children) |-> it.children[i].name]

\* C22: a non-empty container not rendered Inline or CompactArray is rendered
\* Table iff its complexity is within max_table_row_complexity and, for an
\* Array, it is not forced-multiline and every child has the table-eligible
\* type of the first child; for an Object, the first child is a non-empty
\* Object and every child is an Object with the same ordered member names.
C22_TableEligibility ==
    \A c \in calls :
        (Len(c.item.children) > 0 /\ c.renderer \notin {"Inline", "CompactArray"})
            => ((c.renderer = "Table") <=>
                   /\ c.item.complexity <= options.max_table_row_complexity
                   /\ \/ /\ c.item.item_type = "Array"
                         /\ ~c.item.requires_multiple_lines
                         /\ TableEligibleType(c.item.children[1]) # "none"
                         /\ \A i \in 1..Len(c.item.children) :
                                TableEligibleType(c.item.children[i])
                                    = TableEligibleType(c.item.children[1])
                      \/ /\ c.item.item_type = "Object"
                         /\ c.item.children[1].item_type = "Object"
                         /\ Len(c.item.children[1].children) > 0
                         /\ \A i \in 1..Len(c.item.children) :
                                /\ c.item.children[i].item_type = "Object"
                                /\ MemberNames(c.item.children[i])
                                       = MemberNames(c.item.children[1]))

\* C22 witness: an Array within the table budget and not forced-multiline,
\* whose second row is an empty Array, was rendered Expanded.
C22_Witness ==
    /\ Returned
    /\ \E c \in calls :
          /\ c.item.item_type = "Array"
          /\ c.item.complexity <= options.max_table_row_complexity
          /\ ~c.item.requires_multiple_lines
          /\ Len(c.item.children) = 2
          /\ c.item.children[1].item_type = "Array"
          /\ c.item.children[2].item_type = "Array"
          /\ Len(c.item.children[1].children) > 0
          /\ Len(c.item.children[2].children) = 0
          /\ c.renderer = "Expanded"

\* Some node of the subtree (the node itself included) is a comment node.
RECURSIVE HasCommentNode(_)
HasCommentNode(it) ==
    \/ is_comment(it.item_type)
    \/ \E i \in 1..Len(it.children) : HasCommentNode(it.children[i])

\* C23: when a container is rendered Inline, each container among its children
\* is dispatched at indent 0, satisfies should_inline there and is rendered
\* Inline (so every descendant container is); the Inline rendering of a tree
\* without comment nodes holds no end-of-line string.
C23_InlineClosedUnderDescent ==
    /\ \A c \in calls :
           c.renderer = "Inline"
               => \A i \in 1..Len(c.item.children) :
                      is_structural(c.item.children[i].item_type)
                          => /\ should_inline(c.item.children[i], options, 0)
                             /\ [item |-> c.item.children[i], indent |-> 0,
                                 renderer |-> "Inline"] \in calls
                             /\ \A d \in calls :
                                    (d.item = c.item.children[i] /\ d.indent = 0)
                                        => d.renderer = "Inline"
    /\ (Finished /\ RootRendered("Inline") /\ ~HasCommentNode(item))
           => /\ Returned
              /\ CountOf(buffer, "\n") = 0
              /\ CountOf(buffer, "\r") = 0

\* C23 witness: the root was rendered Inline, with a non-empty container and
\* a string holding a line feed among its children.
C23_Witness ==
    /\ Returned
    /\ RootRendered("Inline")
    /\ \E i \in 1..Len(item.children) :
           /\ is_structural(item.children[i].item_type)
           /\ Len(item.children[i].children) > 0
    /\ \E i \in 1..Len(item.children) :
           /\ item.children[i].item_type = "String"
           /\ CountOf(item.children[i].value, "\n") > 0

\* The indentation of `levels` levels.
Indentation(opts, levels) ==
    IF opts.use_tab_to_indent THEN Tabs(levels)
    ELSE Spaces(levels * opts.indent_spaces)

\* The number of spaces and tabs a line starts with.
LeadingBlanks(line) ==
    LET inked == {i \in 1..Len(line) : line[i] \notin {" ", "\t"}}
    IN  IF inked = {} THEN Len(line)
        ELSE (CHOOSE i \in inked : \A j \in inked : i <= j) - 1

\* The text of a line after its first colon.
AfterColon(line) ==
    LET colons == {i \in 1..Len(line) : line[i] = ":"}
    IN  IF colons = {} THEN line
        ELSE SubSeq(line, (CHOOSE i \in colons : \A j \in colons : i <= j) + 1,
                    Len(line))

\* C24: in the root rendered Expanded (indent 0) with scalar children, each
\* child's line starts with exactly one level of indentation, the value of a
\* property follows the colon and its padding with no further indentation,
\* and the closing bracket is on a line of its own without indentation.
C24_ExpandedIndentation ==
    (Returned /\ RootRendered("Expanded") /\ ScalarChildren(item))
        => LET inner == InnerLines(buffer)
               all == Lines(buffer)
           IN  /\ Len(inner) = Len(item.children)
               /\ \A j \in 1..Len(inner) :
                      /\ LeadingBlanks(inner[j]) = Len(Indentation(options, 1))
                      /\ SubSeq(inner[j], 1, Len(Indentation(options, 1)))
                             = Indentation(options, 1)
                      /\ item.item_type = "Object"
                             => LeadingBlanks(AfterColon(inner[j]))
                                    = (IF options.colon_padding THEN 1 ELSE 0)
               /\ all[Len(all)] \in {<<"]">>, <<"}">>}

\* No child is a container and none carries an attached comment: every
\* child is written on one line.
OneLineChildren(it) ==
    \A i \in 1..Len(it.children) :
        /\ ~is_structural(it.children[i].item_type)
        /\ ~has_comments(it.children[i])

\* The first character of a line other than a space or a tab, or "".
FirstVisible(line) ==
    IF LeadingBlanks(line) = Len(line) THEN "" ELSE line[LeadingBlanks(line) + 1]

\* The lines between the brackets that hold a value: not blank and not a
\* comment alone.
ValueLines(s) ==
    SelectSeq(InnerLines(s),
              LAMBDA line : FirstVisible(line) \notin {"", "/", "\r", ","})

ColonColumn(line) ==
    LET colons == {i \in 1..Len(line) : line[i] = ":"}
    IN  IF colons = {} THEN 0 ELSE CHOOSE i \in colons : \A j \in colons : i <= j

\* C26: in an Object rendered Expanded (the root, with scalar properties),
\* when colon_before_prop_name_padding is false every quoted name is followed
\* by spaces up to a name field of min(longest name, max_prop_name_padding)
\* characters and then the colon; when it is true the colon follows the
\* quoted name at once.
C26_PropertyNamePadding ==
    (/\ Returned
     /\ RootRendered("Expanded")
     /\ item.item_type = "Object"
     /\ ScalarChildren(item))
        => LET inner == InnerLines(buffer)
               field == Min(MaxSeq([i \in 1..Len(item.children) |->
                                       Len(item.children[i].name)]),
                            options.max_prop_name_padding)
               start == Len(Indentation(options, 1))
           IN  /\ Len(inner) = Len(item.children)
               /\ \A j \in 1..Len(inner) :
                      LET name == item.children[j].name
                      IN  /\ SubSeq(inner[j], start + 1, start + Len(name) + 2)
                                 = Quoted(name)
                          /\ ColonColumn(inner[j]) =
                                 start + 2 + 1 +
                                 (IF options.colon_before_prop_name_padding
                                  THEN Len(name)
                                  ELSE Max(field, Len(name)))

\* Every child is a comment node, and there is one.
OnlyCommentChildren(it) ==
    /\ Len(it.children) > 0
    /\ \A i \in 1..Len(it.children) : is_comment(it.children[i].item_type)

\* C27: with comment_policy = Preserve, a container whose only children are
\* comment nodes is written with the opening bracket, then each comment on a
\* line of its own, then the closing bracket alone on the last line; an
\* Object with a real property writes none of its standalone comment nodes
\* and no blank line for its blank-line nodes.
C27_StandaloneComments ==
    (Returned /\ options.comment_policy = "Preserve" /\ is_structural(item.item_type))
        => /\ OnlyCommentChildren(item)
                  => LET all == Lines(buffer)
                         inner == InnerLines(buffer)
                     IN  /\ Len(all) = Len(item.children) + 2
                         /\ FirstVisible(all[1]) \in {"[", "{"}
                         /\ \A j \in 1..Len(inner) :
                                /\ Contains(inner[j], item.children[j].value)
                                /\ CountOf(inner[j], "]") = 0
                                /\ CountOf(inner[j], "}") = 0
                         /\ all[Len(all)] \in {<<"]">>, <<"}">>}
           /\ (item.item_type = "Object" /\ has_properties(item) /\ OneLineChildren(item))
                  => /\ \A i \in 1..Len(item.children) :
                            is_comment(item.children[i].item_type)
                                => ~Contains(buffer, item.children[i].value)
                     /\ \A j \in 1..Len(InnerLines(buffer)) :
                            FirstVisible(InnerLines(buffer)[j]) \notin {"", "\r"}

DigitChars == {"0", "1", "2", "3", "4", "5", "6", "7", "8", "9"}

\* The positions where a number starts in a text.
NumberStarts(s) ==
    {p \in 1..Len(s) : s[p] \in DigitChars /\ (p = 1 \/ s[p - 1] \notin DigitChars)}

\* The width of the field of the number starting at p: the characters up to
\* the next comma or line break.
FieldWidth(s, p) ==
    LET stops == {q \in p..(Len(s) + 1) :
                     q = Len(s) + 1 \/ s[q] \in {",", "\n", "\r"}}
    IN  (CHOOSE q \in stops : \A r \in stops : q <= r) - p

\* The length of the number starting at p.
NumberWidth(s, p) ==
    LET stops == {q \in p..(Len(s) + 1) :
                     q = Len(s) + 1 \/ s[q] \notin DigitChars}
    IN  (CHOOSE q \in stops : \A r \in stops : q <= r) - p

\* An Array of Numbers without comments, and at least one.
NumberArray(it) ==
    /\ it.item_type = "Array"
    /\ Len(it.children) > 0
    /\ \A i \in 1..Len(it.children) :
           it.children[i].item_type = "Number" /\ ~has_comments(it.children[i])

\* C28: with number_list_alignment = Left, in an Array of Numbers rendered
\* Expanded or CompactArray every number is followed by spaces up to the
\* length of the longest of them; rendered Table the text is what it is
\* with None; with None every number is written as it is (on the lines
\* of the same three renderers).
C28_NumberAlignmentLeft ==
    (Returned /\ NumberArray(item))
        => LET longest == MaxSeq([i \in 1..Len(item.children) |->
                                     Len(item.children[i].value)])
           IN  /\ ( /\ options.number_list_alignment = "Left"
                    /\ (RootRendered("Expanded") \/ RootRendered("CompactArray")) )
                      => /\ Cardinality(NumberStarts(buffer)) = Len(item.children)
                         /\ \A p \in NumberStarts(buffer) :
                                FieldWidth(buffer, p) = longest
               /\ (options.number_list_alignment = "Left" /\ RootRendered("Table"))
                      => buffer = format(item,
                                      [options EXCEPT !.number_list_alignment = "None"],
                                      FALSE).text
               /\ (options.number_list_alignment = "None" /\ ~RootRendered("Inline"))
                      => \A p \in NumberStarts(buffer) :
                             FieldWidth(buffer, p) = NumberWidth(buffer, p)

\* The line, without the carriage return of a CRLF line break, ends with a
\* comma.
EndsWithComma(line) ==
    LET text == IF Len(line) > 0 /\ line[Len(line)] = "\r"
                THEN SubSeq(line, 1, Len(line) - 1) ELSE line
    IN  Len(text) > 0 /\ text[Len(text)] = ","

\* C29: in an Array rendered as Table every row is one line, and the line of
\* a row ends with a comma iff the row is not the last and
\* table_comma_placement = EndOfLine.
C29_TableRowTerminator ==
    (Returned /\ item.item_type = "Array" /\ RootRendered("Table"))
        => LET inner == InnerLines(buffer)
           IN  /\ Len(inner) = Len(item.children)
               /\ \A j \in 1..Len(inner) :
                      EndsWithComma(inner[j])
                          <=> (/\ j < Len(inner)
                               /\ options.table_comma_placement = "EndOfLine")

\* C29 witness: a table of two or more rows and two or more columns was
\* written with NextLine.
C29_Witness ==
    /\ Returned
    /\ item.item_type = "Array"
    /\ RootRendered("Table")
    /\ Len(item.children) >= 2
    /\ options.table_comma_placement = "NextLine"
    /\ CountOf(buffer, ",") > 0

\* The number of children that are properties or elements, not standalone
\* comment or blank-line nodes.
EmittedMembers(it) ==
    Cardinality({i \in 1..Len(it.children) :
                    ~is_comment_or_blank(it.children[i].item_type)})

\* C30: for an Object with real properties (scalar ones) and standalone
\* comment or blank-line children, with allow_trailing_commas = false, the k
\* emitted members are separated by exactly k-1 commas: the Expanded
\* rendering has no comma after the last emitted property and the Inline
\* rendering none before the first.
C30_SeparatorsCountEmittedMembers ==
    (/\ Returned
     /\ item.item_type = "Object"
     /\ has_properties(item)
     /\ \E i \in 1..Len(item.children) :
            is_comment_or_blank(item.children[i].item_type)
     /\ OneLineChildren(item)
     /\ ~options.allow_trailing_commas)
        => /\ CountOf(buffer, ",") = EmittedMembers(item) - 1
           /\ RootRendered("Expanded")
                  => LET values == ValueLines(buffer)
                     IN  /\ Len(values) = EmittedMembers(item)
                         /\ LastVisible(values[Len(values)]) # ","
           /\ RootRendered("Inline")
                  => FirstVisible(Tail(buffer)) = "\""

====
